---- MODULE Spec2Model ----
(***************************************************************************)
(* Y90RS calculator (app.py): the MELD 3.0 calculator, the Y90RS scorer,   *)
(* the risk classification done in main() and the recommendation table.    *)
(*                                                                         *)
(* Units.  The program works on Python floats.  The model keeps every      *)
(* continuous clinical quantity of calculate_y90rs as an integer number of *)
(* HUNDREDTHS of the unit of the source (tumor_size 301 is 3.01 cm, nlr    *)
(* 250 is 2.5), so every threshold of the source appears multiplied by     *)
(* 100.  ecog is a plain integer.  The laboratory values given to          *)
(* calculate_meld3 are integers in TENTHS of their unit and the unit       *)
(* conversions and clamps are computed on exact rationals <<num, den>>.    *)
(***************************************************************************)
EXTENDS Integers, Sequences, FiniteSets, TLC

VARIABLES fn, args, status, ret, subs, prev

vars == <<fn, args, status, ret, subs, prev>>

(* Value of ret when the call raised, of args before any call, of prev     *)
(* when no earlier result is displayed.                                    *)
NoValue == [none |-> TRUE]

RECURSIVE SumSeq(_)
SumSeq(s) == IF s = <<>> THEN 0 ELSE s[1] + SumSeq(Tail(s))

(***************************************************************************)
(* calculate_y90rs                                                         *)
(***************************************************************************)

(* The third condition written with the bounds of the next branch. *)
SizeVolumeBranch1_Wide(tumor_size, tumor_volume) ==
  \/ (tumor_size <= 500 /\ tumor_volume <= 30000)
  \/ (tumor_size <= 300 /\ tumor_volume <= 30000)
  \/ (tumor_size <= 800 /\ tumor_volume <= 10000)

(* Second branch of the size/volume block, the three OR-ed conditions.     *)
SizeVolumeBranch1(tumor_size, tumor_volume) ==
  \/ (tumor_size <= 500 /\ tumor_volume <= 30000)
  \/ (tumor_size <= 300 /\ tumor_volume <= 30000)
  \/ (tumor_size <= 500 /\ tumor_volume <= 10000)

(* The last branch adding 5. *)
SizeVolumeScore_Else5(tumor_size, tumor_volume) ==
  IF tumor_size <= 300 /\ tumor_volume <= 10000 THEN 0
  ELSE IF SizeVolumeBranch1(tumor_size, tumor_volume) THEN 1
  ELSE IF tumor_size <= 800 /\ tumor_volume <= 50000 THEN 2
  ELSE 5

(* The last branch adding 3. *)
SizeVolumeScore_Else3(tumor_size, tumor_volume) ==
  IF tumor_size <= 300 /\ tumor_volume <= 10000 THEN 0
  ELSE IF SizeVolumeBranch1(tumor_size, tumor_volume) THEN 1
  ELSE IF tumor_size <= 800 /\ tumor_volume <= 50000 THEN 2
  ELSE 3

(* The first branch exclusive at 3 cm. *)
SizeVolumeScore_StrictFirst(tumor_size, tumor_volume) ==
  IF tumor_size < 300 /\ tumor_volume <= 10000 THEN 0
  ELSE IF SizeVolumeBranch1(tumor_size, tumor_volume) THEN 1
  ELSE IF tumor_size <= 800 /\ tumor_volume <= 50000 THEN 2
  ELSE 4

(* Size & Volume (0-4) *)
SizeVolumeScore(tumor_size, tumor_volume) ==
  IF tumor_size <= 300 /\ tumor_volume <= 10000 THEN 0
  ELSE IF SizeVolumeBranch1(tumor_size, tumor_volume) THEN 1
  ELSE IF tumor_size <= 800 /\ tumor_volume <= 50000 THEN 2
  ELSE 4

(* AFP (0-3) *)
AfpScore(afp) ==
  IF afp <= 2000 THEN 0
  ELSE IF afp <= 40000 THEN 1
  ELSE IF afp <= 100000 THEN 2
  ELSE 3

(* Portal Vein Status (0-3): the dictionary of the source. *)
portal_vein_scores ==
  "No thrombosis" :> 0 @@
  "Bland thrombosis" :> 1 @@
  "Segmental tumor thrombosis" :> 2 @@
  "Main/Lobar tumor thrombosis" :> 3

(* Shunt Fraction (0-2) *)
ShuntScore(shunt_fraction) ==
  IF shunt_fraction <= 500 THEN 0
  ELSE IF shunt_fraction <= 1000 THEN 1
  ELSE 2

(* MELD 3.0 (0-2) *)
MeldScore(meld3) ==
  IF meld3 <= 1000 THEN 0
  ELSE IF meld3 <= 1400 THEN 1
  ELSE 2

(* Albumin scored in the direction of the other fields. *)
AlbuminScore_Inverted(albumin) ==
  IF albumin <= 2800 THEN 0
  ELSE IF albumin <= 3500 THEN 1
  ELSE 2

(* Albumin (0-2) *)
AlbuminScore(albumin) ==
  IF albumin >= 3500 THEN 0
  ELSE IF albumin >= 2800 THEN 1
  ELSE 2

(* ALT/AST ratio (0-2) *)
AltAstScore(alt_ast_ratio) ==
  IF alt_ast_ratio <= 150 THEN 0
  ELSE IF alt_ast_ratio <= 200 THEN 1
  ELSE 2

(* The first NLR threshold exclusive. *)
NlrScore_Strict(nlr) ==
  IF nlr < 250 THEN 0
  ELSE IF nlr <= 400 THEN 1
  ELSE 2

(* NLR (0-2) *)
NlrScore(nlr) ==
  IF nlr <= 250 THEN 0
  ELSE IF nlr <= 400 THEN 1
  ELSE 2

(* ECOG Status (0-2) *)
EcogScore(ecog) ==
  IF ecog <= 1 THEN 0
  ELSE IF ecog = 2 THEN 1
  ELSE 2

(* The portal vein lookup with a default of 0 for a missing key. *)
calculate_y90rs_DefaultPortal(in) ==
  LET all == << SizeVolumeScore(in.tumor_size, in.tumor_volume),
                AfpScore(in.afp),
                IF in.portal_vein_status \in DOMAIN portal_vein_scores
                THEN portal_vein_scores[in.portal_vein_status] ELSE 0,
                ShuntScore(in.shunt_fraction),
                MeldScore(in.meld3),
                AlbuminScore(in.albumin),
                AltAstScore(in.alt_ast_ratio),
                NlrScore(in.nlr),
                EcogScore(in.ecog) >>
  IN [status |-> "returned", increments |-> all, score |-> 0 + SumSeq(all)]

(* The whole function.  increments is the sequence of the values added to  *)
(* the local variable score, in program order; the dictionary lookup of    *)
(* the third block raises KeyError for a missing key, after the first two  *)
(* blocks have run and before anything is returned.                        *)
calculate_y90rs(in) ==
  LET tumor == << SizeVolumeScore(in.tumor_size, in.tumor_volume),
                  AfpScore(in.afp) >>
  IN IF in.portal_vein_status \notin DOMAIN portal_vein_scores
     THEN [status |-> "KeyError", increments |-> tumor, score |-> NoValue]
     ELSE LET all == tumor \o
                     << portal_vein_scores[in.portal_vein_status],
                        ShuntScore(in.shunt_fraction),
                        MeldScore(in.meld3),
                        AlbuminScore(in.albumin),
                        AltAstScore(in.alt_ast_ratio),
                        NlrScore(in.nlr),
                        EcogScore(in.ecog) >>
          IN [status |-> "returned", increments |-> all,
              score |-> 0 + SumSeq(all)]

(***************************************************************************)
(* get_recommendations                                                     *)
(***************************************************************************)
recommendations ==
  "Low Risk" :> (
     "Pre-treatment" :> <<
        "Standard pre-treatment workup",
        "Consider single-session treatment",
        "Standard liver function assessment",
        "Optional multidisciplinary review" >> @@
     "Treatment" :> <<
        "Target dose: 120-150 Gy",
        "Consider whole-lobe treatment if indicated",
        "Standard personalized dosimetry",
        "Single-session approach preferred",
        "Consider selective/superselective approach" >> @@
     "Monitoring" :> <<
        "Follow-up imaging at 3 months",
        "Liver function tests every 4-6 weeks",
        "Consider AFP monitoring q3 months",
        "Standard toxicity monitoring" >> ) @@
  "Intermediate Risk" :> (
     "Pre-treatment" :> <<
        "Mandatory multidisciplinary review",
        "Detailed vascular mapping",
        "Consider advanced liver function testing",
        "Assess portal vein flow dynamics",
        "Consider pre-treatment portal vein embolization" >> @@
     "Treatment" :> <<
        "Target dose: 100-120 Gy",
        "Sequential lobar treatment recommended",
        "Consider radiation segmentectomy for small lesions",
        "Personalized dosimetry mandatory",
        "Consider prophylactic antibiotics" >> @@
     "Monitoring" :> <<
        "Early follow-up imaging (6-8 weeks)",
        "Liver function tests every 2-3 weeks",
        "Monthly AFP monitoring",
        "Enhanced toxicity monitoring",
        "Consider admission for first treatment" >> ) @@
  "High Risk" :> (
     "Pre-treatment" :> <<
        "Extensive pre-treatment evaluation",
        "Full performance status assessment",
        "Detailed quality of life assessment",
        "Consider alternative treatments",
        "Mandatory portal pressure assessment",
        "Detailed nutritional assessment" >> @@
     "Treatment" :> <<
        "Target dose: 80-100 Gy",
        "Selective/superselective approach mandatory",
        "Sequential treatment with 4-6 week interval",
        "Consider dose reduction",
        "Prophylactic antibiotics mandatory",
        "Consider systemic therapy combination" >> @@
     "Monitoring" :> <<
        "Weekly monitoring first month",
        "Imaging at 4-6 weeks",
        "Biweekly liver function tests",
        "Consider hospital admission",
        "Enhanced toxicity monitoring",
        "Early palliative care consultation" >> )

(* The dictionary lookup of the last line: KeyError for a missing key.     *)
get_recommendations(risk_category) ==
  IF risk_category \in DOMAIN recommendations
  THEN [status |-> "returned", value |-> recommendations[risk_category]]
  ELSE [status |-> "KeyError", value |-> NoValue]

(***************************************************************************)
(* main: what the "Calculate Y90RS Score" button does with the score       *)
(***************************************************************************)

(* The first threshold exclusive. *)
RiskClassification_Strict(score) ==
  IF score < 6
  THEN [risk_category |-> "Low Risk", color |-> "success",
        mortality |-> "<10%"]
  ELSE IF score <= 12
  THEN [risk_category |-> "Intermediate Risk", color |-> "warning",
        mortality |-> "10-30%"]
  ELSE [risk_category |-> "High Risk", color |-> "error",
        mortality |-> ">30%"]

(* The last category spelled differently from the key of the table. *)
RiskClassification_Typo(score) ==
  IF score <= 6
  THEN [risk_category |-> "Low Risk", color |-> "success",
        mortality |-> "<10%"]
  ELSE IF score <= 12
  THEN [risk_category |-> "Intermediate Risk", color |-> "warning",
        mortality |-> "10-30%"]
  ELSE [risk_category |-> "High risk", color |-> "error",
        mortality |-> ">30%"]

(* Determine risk category *)
RiskClassification(score) ==
  IF score <= 6
  THEN [risk_category |-> "Low Risk", color |-> "success",
        mortality |-> "<10%"]
  ELSE IF score <= 12
  THEN [risk_category |-> "Intermediate Risk", color |-> "warning",
        mortality |-> "10-30%"]
  ELSE [risk_category |-> "High Risk", color |-> "error",
        mortality |-> ">30%"]

(* Classification, the three metrics, the lookup of the recommendations    *)
(* and the three columns that are rendered from it.                        *)
DisplayResults(score) ==
  LET c == RiskClassification(score)
      r == get_recommendations(c.risk_category)
  IN IF r.status # "returned"
     THEN [status |-> r.status, value |-> NoValue]
     ELSE [status |-> "returned",
           value |-> [score |-> score,
                      risk_category |-> c.risk_category,
                      color |-> c.color,
                      mortality |-> c.mortality,
                      recommendations |-> r.value,
                      columns |-> << r.value["Pre-treatment"],
                                     r.value["Treatment"],
                                     r.value["Monitoring"] >>]]

(* The body of the button branch of main. *)
main(in) ==
  LET y == calculate_y90rs(in)
  IN IF y.status # "returned"
     THEN [status |-> y.status, increments |-> y.increments,
           value |-> NoValue]
     ELSE LET d == DisplayResults(y.score)
          IN [status |-> d.status, increments |-> y.increments,
              value |-> d.value]

(***************************************************************************)
(* calculate_meld3                                                         *)
(***************************************************************************)

(* Exact rationals <<numerator, denominator>>, denominator > 0. *)
Rat(n, d) == <<n, d>>

RLt(a, b) == a[1] * b[2] < b[1] * a[2]

RLeq(a, b) == a[1] * b[2] <= b[1] * a[2]

RSub(a, b) == <<a[1] * b[2] - b[1] * a[2], a[2] * b[2]>>

RMul(a, b) == <<a[1] * b[1], a[2] * b[2]>>

(* Python's max(a, b) and min(a, b) of two arguments: the first argument   *)
(* is kept unless the second is strictly greater (smaller).                *)
PyMax(a, b) == IF RLt(a, b) THEN b ELSE a

PyMin(a, b) == IF RLt(b, a) THEN b ELSE a

(* math.log(x) raises ValueError unless x > 0. *)
LogDefined(x) == x[1] > 0

(* The function without the floor of 1 on bilirubin_mgdl. *)
calculate_meld3_NoFloor(bilirubin, creatinine, inr, sodium, female) ==
  LET bilirubin_mgdl   == Rat(bilirubin, 171)
      creatinine_mgdl0 == Rat(creatinine, 884)
      creatinine_mgdl  == PyMax(Rat(1, 1), PyMin(Rat(4, 1), creatinine_mgdl0))
      inr1             == PyMax(Rat(1, 1), Rat(inr, 10))
      sodium1          == PyMax(Rat(125, 1), PyMin(Rat(137, 1), Rat(sodium, 10)))
      female_term      == RMul(Rat(133, 100), Rat(IF female THEN 1 ELSE 0, 1))
      sodium_term      == RMul(Rat(47, 1000),
                               PyMax(RSub(Rat(137, 1), sodium1), Rat(0, 1)))
      used == [bilirubin_mgdl |-> bilirubin_mgdl,
               creatinine_mgdl |-> creatinine_mgdl,
               inr |-> inr1, sodium |-> sodium1,
               female_term |-> female_term, sodium_term |-> sodium_term]
  IN IF LogDefined(bilirubin_mgdl) /\ LogDefined(inr1)
        /\ LogDefined(creatinine_mgdl)
     THEN [status |-> "returned", value |-> used]
     ELSE [status |-> "ValueError", value |-> used]

(* The function up to the evaluation of the formula.  bilirubin and        *)
(* creatinine are tenths of umol/L (x / 17.1 is x10 / 171, x / 88.4 is     *)
(* x10 / 884), inr and sodium are tenths.  The value of the logarithms is  *)
(* not computed: the result records the clamped values the formula uses,   *)
(* the two terms that are rational, and whether a logarithm raised.        *)
calculate_meld3(bilirubin, creatinine, inr, sodium, female) ==
  LET bilirubin_mgdl0  == Rat(bilirubin, 171)
      creatinine_mgdl0 == Rat(creatinine, 884)
      bilirubin_mgdl   == PyMax(Rat(1, 1), bilirubin_mgdl0)
      creatinine_mgdl  == PyMax(Rat(1, 1), PyMin(Rat(4, 1), creatinine_mgdl0))
      inr1             == PyMax(Rat(1, 1), Rat(inr, 10))
      sodium1          == PyMax(Rat(125, 1), PyMin(Rat(137, 1), Rat(sodium, 10)))
      female_term      == RMul(Rat(133, 100), Rat(IF female THEN 1 ELSE 0, 1))
      sodium_term      == RMul(Rat(47, 1000),
                               PyMax(RSub(Rat(137, 1), sodium1), Rat(0, 1)))
      used == [bilirubin_mgdl |-> bilirubin_mgdl,
               creatinine_mgdl |-> creatinine_mgdl,
               inr |-> inr1, sodium |-> sodium1,
               female_term |-> female_term, sodium_term |-> sodium_term]
  IN IF LogDefined(bilirubin_mgdl) /\ LogDefined(inr1)
        /\ LogDefined(creatinine_mgdl)
     THEN [status |-> "returned", value |-> used]
     ELSE [status |-> "ValueError", value |-> used]

(***************************************************************************)
(* Inputs                                                                  *)
(***************************************************************************)

(* How many of the nine numeric fields of a boundary input differ from the *)
(* all-minimum input.                                                      *)
MaxVaried == 2

(* How far below 0 and above 23 the scores given to the classification go. *)
ScoreMargin == 40

PortalKeys == {"No thrombosis", "Bland thrombosis",
               "Segmental tumor thrombosis", "Main/Lobar tumor thrombosis"}

PortalOther == {"Unknown", "no thrombosis"}

(* Every value at, just above or just below a threshold of its field. *)
FieldValues ==
  [tumor_size    |-> {0, 300, 301, 500, 501, 800, 801, 3000},
   tumor_volume  |-> {0, 10000, 10001, 30000, 30001, 50000, 50001},
   afp           |-> {0, 2000, 2001, 40000, 40001, 100000, 100001},
   shunt_fraction |-> {0, 500, 501, 1000, 1001, 10000},
   meld3         |-> {0, 1000, 1001, 1100, 1400, 1401, 1500, 4000},
   albumin       |-> {6000, 3500, 3499, 2800, 2799, 0},
   alt_ast_ratio |-> {0, 150, 151, 200, 201},
   nlr           |-> {0, 250, 251, 400, 401},
   ecog          |-> {0, 1, 2, 3}]

NumericFields == DOMAIN FieldValues

(* One value per step of each field: the thresholds, and one value above   *)
(* the last (for albumin, below it).                                       *)
LevelValues ==
  [tumor_size    |-> {300, 500, 800, 801},
   tumor_volume  |-> {10000, 30000, 50000, 50001},
   afp           |-> {2000, 40000, 100000, 100001},
   shunt_fraction |-> {500, 1000, 1001},
   meld3         |-> {1000, 1400, 1500},
   albumin       |-> {3500, 2800, 2799},
   alt_ast_ratio |-> {150, 200, 201},
   nlr           |-> {250, 400, 401},
   ecog          |-> {0, 1, 2, 3}]

InputsOver(V, P) ==
  [tumor_size : V.tumor_size, tumor_volume : V.tumor_volume, afp : V.afp,
   portal_vein_status : P, shunt_fraction : V.shunt_fraction,
   meld3 : V.meld3, albumin : V.albumin, alt_ast_ratio : V.alt_ast_ratio,
   nlr : V.nlr, ecog : V.ecog]

(* The least severe input. *)
Baseline ==
  [tumor_size |-> 0, tumor_volume |-> 0, afp |-> 0,
   portal_vein_status |-> "No thrombosis", shunt_fraction |-> 0,
   meld3 |-> 0, albumin |-> 6000, alt_ast_ratio |-> 0, nlr |-> 0,
   ecog |-> 0]

RECURSIVE Varied(_)
Varied(k) ==
  IF k = 0 THEN {Baseline}
  ELSE LET less == Varied(k - 1)
       IN less \cup UNION { UNION { { [b EXCEPT ![f] = v] : v \in FieldValues[f] }
                                    : f \in NumericFields } : b \in less }

BoundaryInputs ==
  { [b EXCEPT !.portal_vein_status = p] :
      b \in Varied(MaxVaried), p \in PortalKeys \cup PortalOther }

LevelInputs == InputsOver(LevelValues, PortalKeys \cup {"Unknown"})

Y90RSInputs == LevelInputs \cup BoundaryInputs

(* What the widgets of main can hold: the select box offers the four keys, *)
(* the number inputs no negative value, the ECOG box 0 to 3.               *)
IsValid(in) ==
  /\ in.portal_vein_status \in PortalKeys
  /\ in.ecog \in 0..3
  /\ \A f \in NumericFields : in[f] >= 0

(* The lowest and the highest step of every single field, every step of   *)
(* the size and volume pair.                                               *)
ExtremeValues ==
  [tumor_size    |-> {300, 500, 800, 801},
   tumor_volume  |-> {10000, 30000, 50000, 50001},
   afp           |-> {2000, 100001},
   shunt_fraction |-> {500, 1001},
   meld3         |-> {1000, 1500},
   albumin       |-> {3500, 2799},
   alt_ast_ratio |-> {150, 201},
   nlr           |-> {250, 401},
   ecog          |-> {0, 3}]

ExtremePortal == {"No thrombosis", "Main/Lobar tumor thrombosis"}

ExtremeInputs == InputsOver(ExtremeValues, ExtremePortal)

NearBaselineInputs ==
  { [b EXCEPT !.portal_vein_status = p] :
      b \in Varied(MaxVaried - 1), p \in PortalKeys }

FormInputs == ExtremeInputs \cup NearBaselineInputs

BilirubinInputs == {0 - 171, 0, 100, 171, 342, 10000}

CreatinineInputs == {0 - 884, 0, 500, 884, 2000, 3536, 3537, 10000}

InrInputs == {0 - 10, 0, 5, 10, 12, 100}

SodiumInputs == {0 - 1300, 0, 1100, 1250, 1300, 1370, 1400, 1500, 1600}

CategoryInputs == {"Low Risk", "Intermediate Risk", "High Risk",
                   "Very High Risk", "low risk", ""}

ScoreInputs == (0 - ScoreMargin) .. (23 + ScoreMargin)

(***************************************************************************)
(* State machine: one action per call of a function of the program.  fn    *)
(* and args are the call, status is "returned" or the exception raised,    *)
(* ret the returned (displayed) value, subs the values added to score by   *)
(* the blocks of calculate_y90rs that ran.                                 *)
(***************************************************************************)
Init ==
  /\ fn = "none"
  /\ args = NoValue
  /\ status = "idle"
  /\ ret = NoValue
  /\ subs = <<>>
  /\ prev = NoValue

CallY90RS ==
  /\ fn = "none"
  /\ \E in \in Y90RSInputs :
       LET r == calculate_y90rs(in)
       IN /\ fn' = "calculate_y90rs"
          /\ args' = in
          /\ status' = r.status
          /\ ret' = r.score
          /\ subs' = r.increments
          /\ prev' = NoValue

CallMeld3 ==
  /\ fn = "none"
  /\ \E bilirubin \in BilirubinInputs, creatinine \in CreatinineInputs,
        inr \in InrInputs, sodium \in SodiumInputs, female \in BOOLEAN :
       LET r == calculate_meld3(bilirubin, creatinine, inr, sodium, female)
       IN /\ fn' = "calculate_meld3"
          /\ args' = [bilirubin |-> bilirubin, creatinine |-> creatinine,
                      inr |-> inr, sodium |-> sodium, female |-> female]
          /\ status' = r.status
          /\ ret' = r.value
          /\ subs' = <<>>
          /\ prev' = NoValue

CallGetRecommendations ==
  /\ fn = "none"
  /\ \E risk_category \in CategoryInputs :
       LET r == get_recommendations(risk_category)
       IN /\ fn' = "get_recommendations"
          /\ args' = [risk_category |-> risk_category]
          /\ status' = r.status
          /\ ret' = r.value
          /\ subs' = <<>>
          /\ prev' = NoValue

(* The classification and display code of main run on any integer score. *)
ClassifyScore ==
  /\ fn = "none"
  /\ \E score \in ScoreInputs :
       LET r == DisplayResults(score)
       IN /\ fn' = "classify"
          /\ args' = [score |-> score]
          /\ status' = r.status
          /\ ret' = r.value
          /\ subs' = <<>>
          /\ prev' = NoValue

(* The button of main pressed with the form holding in. *)
ButtonClick ==
  /\ fn = "none"
  /\ \E in \in FormInputs :
       LET r == main(in)
       IN /\ fn' = "main"
          /\ args' = in
          /\ status' = r.status
          /\ ret' = r.value
          /\ subs' = r.increments
          /\ prev' = NoValue

(* Order of severity of the portal vein states and of the categories. *)
SeverityRank ==
  "No thrombosis" :> 0 @@
  "Bland thrombosis" :> 1 @@
  "Segmental tumor thrombosis" :> 2 @@
  "Main/Lobar tumor thrombosis" :> 3

CategoryRank ==
  "Low Risk" :> 0 @@ "Intermediate Risk" :> 1 @@ "High Risk" :> 2

(* b is at least as severe as a in every field. *)
Dominates(a, b) ==
  /\ b.tumor_size >= a.tumor_size
  /\ b.tumor_volume >= a.tumor_volume
  /\ b.afp >= a.afp
  /\ SeverityRank[b.portal_vein_status] >= SeverityRank[a.portal_vein_status]
  /\ b.shunt_fraction >= a.shunt_fraction
  /\ b.meld3 >= a.meld3
  /\ b.albumin <= a.albumin
  /\ b.alt_ast_ratio >= a.alt_ast_ratio
  /\ b.nlr >= a.nlr
  /\ b.ecog >= a.ecog

(* The values of V that are at least as severe as those of a. *)
AtLeast(V, a) ==
  [f \in NumericFields |->
     IF f = "albumin" THEN { x \in V[f] : x <= a[f] }
                      ELSE { x \in V[f] : x >= a[f] }]

PortalAtLeast(P, a) ==
  { p \in P : SeverityRank[p] >= SeverityRank[a.portal_vein_status] }

(* The form contents the user may move to from a before pressing the       *)
(* button again: any at least as severe input of the same grid; from an    *)
(* input near the baseline, also a, with the size and volume, or one other *)
(* field, made at least as severe.                                         *)
WorseInputs(a) ==
  (IF a \in ExtremeInputs
   THEN InputsOver(AtLeast(ExtremeValues, a), PortalAtLeast(ExtremePortal, a))
   ELSE {})
  \cup
  (IF a \in NearBaselineInputs
   THEN LET W == AtLeast(FieldValues, a)
        IN { [a EXCEPT !.tumor_size = x, !.tumor_volume = y] :
               x \in W.tumor_size, y \in W.tumor_volume }
           \cup UNION { { [a EXCEPT ![f] = x] : x \in W[f] }
                        : f \in NumericFields }
           \cup { [a EXCEPT !.portal_vein_status = p] :
                    p \in PortalAtLeast(PortalKeys, a) }
   ELSE {})

(* The button pressed a second time, the first result still in prev. *)
ButtonClickAgain ==
  /\ fn = "main"
  /\ status = "returned"
  /\ prev = NoValue
  /\ \E in \in WorseInputs(args) :
       LET r == main(in)
       IN /\ fn' = "main"
          /\ args' = in
          /\ status' = r.status
          /\ ret' = r.value
          /\ subs' = r.increments
          /\ prev' = [args |-> args, score |-> ret.score,
                      risk_category |-> ret.risk_category]

Next ==
  \/ CallY90RS
  \/ CallMeld3
  \/ CallGetRecommendations
  \/ ClassifyScore
  \/ ButtonClick

Spec == Init /\ [][Next]_vars

NextForm ==
  \/ ButtonClick
  \/ ButtonClickAgain

SpecForm == Init /\ [][NextForm]_vars

(***************************************************************************)
(* Properties                                                              *)
(***************************************************************************)

Scored == fn = "calculate_y90rs" /\ status = "returned"

REq(a, b) == a[1] * b[2] = b[1] * a[2]

(* C1: for every valid input calculate_y90rs returns an integer total in   *)
(* 0..23 that is the sum of its nine sub-scores, the four domains lying in *)
(* 0..7, 0..5, 0..6 and 0..4.                                              *)
C1_TotalInRange ==
  (fn = "calculate_y90rs" /\ IsValid(args)) =>
     /\ status = "returned"
     /\ ret \in 0..23
     /\ Len(subs) = 9
     /\ ret = subs[1] + subs[2] + subs[3] + subs[4] + subs[5] + subs[6]
              + subs[7] + subs[8] + subs[9]
     /\ subs[1] + subs[2] \in 0..7
     /\ subs[3] + subs[4] \in 0..5
     /\ subs[5] + subs[6] + subs[7] \in 0..6
     /\ subs[8] + subs[9] \in 0..4

C1_Witness ==
  /\ Scored /\ IsValid(args)
  /\ subs = <<2, 2, 2, 1, 1, 1, 1, 1, 1>>
  /\ ret = 12

(* C2: the classification is total over the integers: a score of at most 6 *)
(* is Low Risk with "<10%", otherwise at most 12 is Intermediate Risk with *)
(* "10-30%", otherwise High Risk with ">30%", below 0 and above 23 too.    *)
C2_Classification ==
  fn = "classify" =>
     /\ status = "returned"
     /\ ret.score = args.score
     /\ args.score <= 6 =>
          ret.risk_category = "Low Risk" /\ ret.mortality = "<10%"
     /\ (args.score >= 7 /\ args.score <= 12) =>
          ret.risk_category = "Intermediate Risk" /\ ret.mortality = "10-30%"
     /\ args.score >= 13 =>
          ret.risk_category = "High Risk" /\ ret.mortality = ">30%"

C2_Witness ==
  /\ fn = "classify" /\ status = "returned"
  /\ args.score = 6
  /\ ret.risk_category = "Low Risk"

(* C3: the size/volume sub-score is 0, 1, 2 or 4, by the first matching    *)
(* branch; 3 cm with 100 cc gives 0, 3.01 cm with 100 cc and 3 cm with     *)
(* 100.01 cc give 1.                                                       *)
C3_SizeVolume ==
  fn = "calculate_y90rs" =>
    LET d == args.tumor_size
        v == args.tumor_volume
        b0 == d <= 300 /\ v <= 10000
        b1 == \/ (d <= 500 /\ v <= 30000)
              \/ (d <= 300 /\ v <= 30000)
              \/ (d <= 500 /\ v <= 10000)
        b2 == d <= 800 /\ v <= 50000
    IN /\ subs[1] \in {0, 1, 2, 4}
       /\ b0 => subs[1] = 0
       /\ (~b0 /\ b1) => subs[1] = 1
       /\ (~b0 /\ ~b1 /\ b2) => subs[1] = 2
       /\ (~b0 /\ ~b1 /\ ~b2) => subs[1] = 4
       /\ (d = 300 /\ v = 10000) => subs[1] = 0
       /\ (d = 301 /\ v = 10000) => subs[1] = 1
       /\ (d = 300 /\ v = 10001) => subs[1] = 1

C3_Witness ==
  /\ fn = "calculate_y90rs"
  /\ args.tumor_size = 301 /\ args.tumor_volume = 10000
  /\ subs[1] = 1

(* C4: every single-field step is inclusive at its threshold (for albumin, *)
(* at its lower bound) and a value strictly past a threshold scores the    *)
(* next step.                                                              *)
C4_Thresholds ==
  /\ fn = "calculate_y90rs" =>
       /\ args.afp <= 2000 => subs[2] = 0
       /\ (args.afp > 2000 /\ args.afp <= 40000) => subs[2] = 1
       /\ (args.afp > 40000 /\ args.afp <= 100000) => subs[2] = 2
       /\ args.afp > 100000 => subs[2] = 3
  /\ Scored =>
       /\ args.shunt_fraction <= 500 => subs[4] = 0
       /\ (args.shunt_fraction > 500 /\ args.shunt_fraction <= 1000)
            => subs[4] = 1
       /\ args.shunt_fraction > 1000 => subs[4] = 2
       /\ args.meld3 <= 1000 => subs[5] = 0
       /\ (args.meld3 > 1000 /\ args.meld3 <= 1400) => subs[5] = 1
       /\ args.meld3 > 1400 => subs[5] = 2
       /\ args.albumin >= 3500 => subs[6] = 0
       /\ (args.albumin < 3500 /\ args.albumin >= 2800) => subs[6] = 1
       /\ args.albumin < 2800 => subs[6] = 2
       /\ args.alt_ast_ratio <= 150 => subs[7] = 0
       /\ (args.alt_ast_ratio > 150 /\ args.alt_ast_ratio <= 200)
            => subs[7] = 1
       /\ args.alt_ast_ratio > 200 => subs[7] = 2
       /\ args.nlr <= 250 => subs[8] = 0
       /\ (args.nlr > 250 /\ args.nlr <= 400) => subs[8] = 1
       /\ args.nlr > 400 => subs[8] = 2
       /\ args.ecog \in {0, 1} => subs[9] = 0
       /\ args.ecog = 2 => subs[9] = 1
       /\ args.ecog = 3 => subs[9] = 2

C4_Witness ==
  /\ Scored
  /\ args.nlr = 250 /\ subs[8] = 0
  /\ args.albumin = 2800 /\ subs[6] = 1

(* C5: the portal vein sub-score is 0, 1, 2, 3 for the four keys; for any  *)
(* other status calculate_y90rs raises and returns nothing, whatever the   *)
(* other inputs, with no portal sub-score added.                           *)
C5_PortalVein ==
  fn = "calculate_y90rs" =>
    LET p == args.portal_vein_status
    IN /\ p = "No thrombosis" => (status = "returned" /\ subs[3] = 0)
       /\ p = "Bland thrombosis" => (status = "returned" /\ subs[3] = 1)
       /\ p = "Segmental tumor thrombosis"
            => (status = "returned" /\ subs[3] = 2)
       /\ p = "Main/Lobar tumor thrombosis"
            => (status = "returned" /\ subs[3] = 3)
       /\ p \notin PortalKeys
            => (status = "KeyError" /\ ret = NoValue /\ Len(subs) = 2)

C5_Witness ==
  /\ fn = "calculate_y90rs"
  /\ args.portal_vein_status = "Unknown"
  /\ args.ecog = 3 /\ args.afp = 100001
  /\ status = "KeyError"

(* C6: the category the classification gives for any integer score, and    *)
(* for any form input, is one of the three keys of the recommendation      *)
(* table, so the lookup succeeds; every key maps to exactly the lists      *)
(* Pre-treatment, Treatment and Monitoring; get_recommendations raises     *)
(* only for a category outside the three.                                  *)
C6_LookupNeverFails ==
  /\ DOMAIN recommendations = {"Low Risk", "Intermediate Risk", "High Risk"}
  /\ \A k \in DOMAIN recommendations :
       DOMAIN recommendations[k] = {"Pre-treatment", "Treatment", "Monitoring"}
  /\ fn \in {"classify", "main"} =>
       /\ status = "returned"
       /\ ret.risk_category \in DOMAIN recommendations
       /\ ret.recommendations = recommendations[ret.risk_category]
  /\ fn = "get_recommendations" =>
       /\ status \in {"returned", "KeyError"}
       /\ status = "KeyError" <=>
            args.risk_category \notin
              {"Low Risk", "Intermediate Risk", "High Risk"}

C6_Witness ==
  /\ fn = "main" /\ status = "returned"
  /\ ret.score >= 13
  /\ ret.risk_category = "High Risk"
  /\ Len(ret.recommendations["Monitoring"]) = 6

(* C7: after the clamps of calculate_meld3, for any input including zero   *)
(* and negative values, bilirubin_mgdl >= 1, 1 <= creatinine_mgdl <= 4,    *)
(* inr >= 1 and 125 <= sodium <= 137, so no logarithm raises; sodium below *)
(* 125 is used as 125, above 137 as 137 with a zero sodium term, and       *)
(* creatinine above 4 mg/dL as 4.                                          *)
C7_MeldClamps ==
  fn = "calculate_meld3" =>
     /\ status = "returned"
     /\ RLeq(Rat(1, 1), ret.bilirubin_mgdl)
     /\ RLeq(Rat(1, 1), ret.creatinine_mgdl)
     /\ RLeq(ret.creatinine_mgdl, Rat(4, 1))
     /\ RLeq(Rat(1, 1), ret.inr)
     /\ RLeq(Rat(125, 1), ret.sodium)
     /\ RLeq(ret.sodium, Rat(137, 1))
     /\ args.sodium < 1250 => REq(ret.sodium, Rat(125, 1))
     /\ args.sodium > 1370 =>
          REq(ret.sodium, Rat(137, 1)) /\ REq(ret.sodium_term, Rat(0, 1))
     /\ args.creatinine > 3536 => REq(ret.creatinine_mgdl, Rat(4, 1))

C7_Witness ==
  /\ fn = "calculate_meld3" /\ status = "returned"
  /\ args.bilirubin < 0 /\ args.inr = 0
  /\ args.sodium = 1100 /\ args.creatinine = 3537
  /\ REq(ret.sodium, Rat(125, 1))

(* The size/volume block with the single condition in its second branch. *)
SingleConditionScore(d, v) ==
  IF d <= 300 /\ v <= 10000 THEN 0
  ELSE IF d <= 500 /\ v <= 30000 THEN 1
  ELSE IF d <= 800 /\ v <= 50000 THEN 2
  ELSE 4

(* C8: the three OR-ed conditions of the second size/volume branch have    *)
(* the truth value of (diameter <= 5 and volume <= 300) alone, and the     *)
(* sub-score is the one the single condition would give.                   *)
C8_RedundantDisjuncts ==
  fn = "calculate_y90rs" =>
     /\ SizeVolumeBranch1(args.tumor_size, args.tumor_volume)
          <=> (args.tumor_size <= 500 /\ args.tumor_volume <= 30000)
     /\ subs[1] = SingleConditionScore(args.tumor_size, args.tumor_volume)

C8_Witness ==
  /\ fn = "calculate_y90rs"
  /\ args.tumor_size = 500 /\ args.tumor_volume = 10000
  /\ subs[1] = 1

(* C9: when the second of two valid inputs is at least as severe as the    *)
(* first in every field (albumin not higher), its total is not lower and   *)
(* its risk category is not lower.                                         *)
C9_Monotone ==
  (fn = "main" /\ prev # NoValue
     /\ IsValid(prev.args) /\ IsValid(args) /\ Dominates(prev.args, args)) =>
     /\ status = "returned"
     /\ ret.score >= prev.score
     /\ CategoryRank[ret.risk_category] >= CategoryRank[prev.risk_category]

C9_Witness ==
  /\ fn = "main" /\ prev # NoValue /\ status = "returned"
  /\ Dominates(prev.args, args)
  /\ prev.args.albumin > args.albumin
  /\ prev.risk_category = "Low Risk"
  /\ ret.risk_category = "High Risk"

(* The totals calculate_y90rs returns over the valid inputs of one value   *)
(* per step.                                                               *)
ReturnedTotals ==
  { calculate_y90rs(in).score : in \in InputsOver(LevelValues, PortalKeys) }

(* C10: the largest total over the valid inputs is 22, so 23 is never      *)
(* returned; every integer of 0..22 is returned for some valid input; 0 is *)
(* returned exactly when the nine sub-scores are all 0.                    *)
C10_MaximumIs22 ==
  /\ ReturnedTotals = 0..22
  /\ (Scored /\ IsValid(args)) =>
       /\ ret <= 22
       /\ ret = 0 <=> (\A i \in 1..9 : subs[i] = 0)

C10_Witness ==
  /\ Scored /\ IsValid(args)
  /\ ret = 22
  /\ subs = <<4, 3, 3, 2, 2, 2, 2, 2, 2>>

====
